---- MODULE Spec2Model ----
(***************************************************************************)
(* The CoreGraphics text layout of piet (piet-coregraphics/src/text.rs):   *)
(* CoreGraphicsTextLayout, its construction, update_width, the UTF-16 to   *)
(* UTF-8 line offset mapping and the per-line queries.                     *)
(*                                                                         *)
(* Numbers: an f64 that may be NaN or infinite (a wrap width) is a record  *)
(* [k, v] with k in {"nan", "inf", "fin"}; a finite length is an integer   *)
(* count of quarter units (1.0 = 4), so that ceil() has work to do.        *)
(* Text: a String is its sequence of UTF-8 bytes, the attributed string    *)
(* its sequence of UTF-16 code units.                                      *)
(***************************************************************************)
EXTENDS Integers, Sequences, FiniteSets, TLC

(* ------------------------------ bounds -------------------------------- *)

\* Longest source text, in characters.
MaxLen == 3

\* Largest finite wrap width a caller passes, in whole units (-1 .. MaxWidth).
MaxWidth == 2

\* Longest text and longest line list of the runs with a defective shaper adapter.
MaxFaultyLen == 1

MaxFaultyLines == 2

\* Longest text and longest list of line starts the offset mapping is run on
\* by itself.
MaxScanLen == 2

MaxTargets == 3

\* Longest text made of 'a' and the whitespace bytes.
MaxWsLen == 2

\* Longest run of whitespace bytes in front of the string's buffer.
MaxWsBefore == 16

(* ------------------------------ text ---------------------------------- *)

\* The characters texts are made of: 'a', '\n', U+00E9 (two bytes, one UTF-16
\* unit) and U+1F600 (four bytes, two UTF-16 units).
Alphabet == {97, 10, 233, 128512}

RECURSIVE SeqsUpTo(_, _)
SeqsUpTo(S, n) ==
    IF n = 0 THEN {<<>>}
    ELSE LET shorter == SeqsUpTo(S, n - 1)
         IN  shorter \cup {Append(s, x) : s \in {t \in shorter : Len(t) = n - 1}, x \in S}

RECURSIVE Flatten(_)
Flatten(ss) == IF ss = <<>> THEN <<>> ELSE Head(ss) \o Flatten(Tail(ss))

\* char::len_utf8
len_utf8(c) == IF c < 128 THEN 1 ELSE IF c < 2048 THEN 2 ELSE IF c < 65536 THEN 3 ELSE 4

\* char::len_utf16
len_utf16(c) == IF c < 65536 THEN 1 ELSE 2

\* The UTF-8 bytes of one character.
EncodeUtf8Char(c) ==
    IF c < 128 THEN <<c>>
    ELSE IF c < 2048 THEN <<192 + (c \div 64), 128 + (c % 64)>>
    ELSE IF c < 65536 THEN
        <<224 + (c \div 4096), 128 + ((c \div 64) % 64), 128 + (c % 64)>>
    ELSE <<240 + (c \div 262144), 128 + ((c \div 4096) % 64),
           128 + ((c \div 64) % 64), 128 + (c % 64)>>

\* The UTF-16 code units of one character.
EncodeUtf16Char(c) ==
    IF c < 65536 THEN <<c>>
    ELSE <<55296 + ((c - 65536) \div 1024), 56320 + ((c - 65536) % 1024)>>

\* `text.into()`: the String holding the characters cs.
StringOf(cs) == Flatten([i \in 1..Len(cs) |-> EncodeUtf8Char(cs[i])])

\* str::chars: the characters of a (valid) UTF-8 byte sequence.
RECURSIVE chars(_)
chars(bytes) ==
    IF bytes = <<>> THEN <<>>
    ELSE LET b == bytes[1]
             n == IF b < 128 THEN 1 ELSE IF b < 224 THEN 2 ELSE IF b < 240 THEN 3 ELSE 4
             c == IF n = 1 THEN b
                  ELSE IF n = 2 THEN (b - 192) * 64 + (bytes[2] - 128)
                  ELSE IF n = 3 THEN
                      (b - 224) * 4096 + (bytes[2] - 128) * 64 + (bytes[3] - 128)
                  ELSE (b - 240) * 262144 + (bytes[2] - 128) * 4096
                       + (bytes[3] - 128) * 64 + (bytes[4] - 128)
         IN  <<c>> \o chars(SubSeq(bytes, n + 1, Len(bytes)))

\* The bytes line_metric counts as whitespace: b' ', b'\t', b'\n', b'\r'.
Whitespace == {32, 9, 10, 13}

\* The source texts of the model: those over the alphabet, and those of 'a'
\* and whitespace.
Texts ==
    {StringOf(cs) : cs \in SeqsUpTo(Alphabet, MaxLen)}
    \cup {StringOf(cs) : cs \in SeqsUpTo({97} \cup Whitespace, MaxWsLen)}

(* ------------------------------ floats -------------------------------- *)

NaN == [k |-> "nan", v |-> 0]

INFINITY == [k |-> "inf", v |-> 0]

Fin(n) == [k |-> "fin", v |-> n]

\* f64 `!=`: NaN differs from everything, itself included.
FloatNe(a, b) == a.k = "nan" \/ b.k = "nan" \/ a # b

\* The same f64 value bit for bit.
FloatSame(a, b) == a = b

\* f64 `<=` of a finite length against a float.
FinLe(n, f) == f.k = "inf" \/ (f.k = "fin" /\ n <= f.v)

\* f64::ceil on quarter units.
ceil(x) == -(((-x) \div 4) * 4)

\* The widths a caller passes: `impl Into<Option<f64>>`.
NoWidth == [k |-> "none", v |-> 0]

WidthArgs == {NoWidth, NaN, INFINITY} \cup {Fin(4 * w) : w \in (-1)..MaxWidth}

\* `width.into().unwrap_or(f64::INFINITY)`
unwrap_or_infinity(arg) == IF arg.k = "none" THEN INFINITY ELSE arg

(* ------------------ the shaper behind crate::ct_helpers ---------------- *)
(* AttributedString, Framesetter, Frame and Line wrap the native shaper.   *)
(* The shaper is a greedy line breaker over the UTF-16 text: a line ends   *)
(* after a newline, or before the first character that no longer fits the  *)
(* width, and holds at least one character; the empty text is one empty    *)
(* line. Every character but the newline advances by one unit (4).         *)
(* How far apart the shaper sets its lines and how much taller than the    *)
(* lines it makes the frame is its own affair: it goes with the font       *)
(* handle, one of Spacings per layout. The frame it suggests is a whole    *)
(* number of units high, as tests::metrics finds it.                       *)

\* The layouts are built with the font of the source's tests,
\* `font::new_from_name("Helvetica", 16.0)`.
FontSize == 16

\* The space the shaper may leave between one line's bottom and the next
\* line's top (line_gap), and between the last line's bottom and the frame's
\* bottom (inset): lines set tight in a tight frame, or set apart.
Spacings == {[line_gap |-> 0, inset |-> 0], [line_gap |-> 2, inset |-> 2]}

\* A font handle: its point size, and the shaper's spacing with it.
Fonts == {[size |-> FontSize, line_gap |-> sp.line_gap, inset |-> sp.inset] : sp \in Spacings}

\* AttributedString::new(text, font)
AttributedString_new(text, font) ==
    [units |-> Flatten([i \in 1..Len(chars(text)) |-> EncodeUtf16Char(chars(text)[i])]),
     font  |-> font]

\* The number of code units of the character starting at unit i.
ClusterLen(units, i) ==
    IF units[i] >= 55296 /\ units[i] < 56320 /\ i < Len(units) THEN 2 ELSE 1

Advance(unit) == IF unit = 10 THEN 0 ELSE 4

\* The index after the last unit of the line that starts at `start`, scanning from i.
RECURSIVE LineEnd(_, _, _, _, _)
LineEnd(units, start, i, used, width) ==
    IF i > Len(units) THEN i
    ELSE IF units[i] = 10 THEN i + 1
    ELSE IF i > start /\ ~FinLe(used + Advance(units[i]), width) THEN i
    ELSE LineEnd(units, start, i + ClusterLen(units, i), used + Advance(units[i]), width)

\* The lines of the text under a width, each [location, length] in code units.
RECURSIVE BreakFrom(_, _, _)
BreakFrom(units, start, width) ==
    IF start > Len(units) THEN <<>>
    ELSE LET e == LineEnd(units, start, start, 0, width)
         IN  <<[location |-> start - 1, length |-> e - start]>> \o BreakFrom(units, e, width)

BreakLines(units, width) ==
    IF units = <<>> THEN <<[location |-> 0, length |-> 0]>> ELSE BreakFrom(units, 1, width)

\* Line::get_typographic_bounds: a line holding a character outside the
\* font's repertoire (a surrogate pair) is set in a taller fallback font.
TypographicBounds(units, ln, font) ==
    LET wide == \E i \in (ln.location + 1)..(ln.location + ln.length) : units[i] >= 55296
    IN  [ascent  |-> IF wide THEN 3 * font.size + 4 ELSE 3 * font.size + 1,
         descent |-> font.size - 3,
         leading |-> font.size \div 16]

LineHeight(b) == b.ascent + b.descent + b.leading

RECURSIVE SumSeq(_)
SumSeq(s) == IF s = <<>> THEN 0 ELSE Head(s) + SumSeq(Tail(s))

RECURSIVE MaxSeq(_)
MaxSeq(s) == IF s = <<>> THEN 0
             ELSE IF Head(s) >= MaxSeq(Tail(s)) THEN Head(s) ELSE MaxSeq(Tail(s))

LineAdvance(units, ln) ==
    SumSeq([i \in 1..ln.length |-> Advance(units[ln.location + i])])
    - 4 * Cardinality({i \in 1..ln.length : units[ln.location + i] >= 56320
                                            /\ units[ln.location + i] < 57344})

\* The lines ls with their bounds.
WithBounds(attr, ls) ==
    [i \in 1..Len(ls) |->
        [location |-> ls[i].location,
         length   |-> ls[i].length,
         bounds   |-> TypographicBounds(attr.units, ls[i], attr.font)]]

\* The lines of a frame with their bounds.
ShapedLines(attr, width) == WithBounds(attr, BreakLines(attr.units, width))

\* The bottom of line i of the lines ls, from the top of their frame: the
\* heights of the lines down to it and the gaps between them.
LineBottom(ls, i, gap) ==
    SumSeq([j \in 1..i |-> LineHeight(ls[j].bounds)]) + (i - 1) * gap

\* The box of the lines ls: the widest line, and the last line's bottom and
\* the inset below it, rounded up to a whole unit.
BoxOf(attr, ls) ==
    [width  |-> MaxSeq([i \in 1..Len(ls) |-> LineAdvance(attr.units, ls[i])]),
     height |-> ceil(LineBottom(ls, Len(ls), attr.font.line_gap) + attr.font.inset)]

\* Framesetter::suggest_frame_size(range, constraints): the box of the lines
\* broken under constraints.width.
suggest_frame_size(attr, constraints) ==
    BoxOf(attr, ShapedLines(attr, constraints.width))

\* What the adapter reports: the shaper's lines, or (a defective adapter) the
\* line start locations in `locations`.
Sound == [defective |-> FALSE, locations |-> <<>>]

Defective(locs) == [defective |-> TRUE, locations |-> locs]

\* The lines a defective adapter reports: empty lines at the given locations.
ReportedLines(attr, locations) ==
    [i \in 1..Len(locations) |->
        [location |-> locations[i], length |-> 0,
         bounds |-> [ascent |-> 3 * attr.font.size + 1, descent |-> attr.font.size - 3,
                     leading |-> attr.font.size \div 16]]]

\* The frame of the lines ls in rect: the origins are in the native,
\* bottom-up coordinates, line i's origin its ascent below its top, which is
\* the gap below the bottom of line i - 1.
FrameOf(ls, rect, gap) ==
    [some    |-> TRUE,
     lines   |-> ls,
     origins |-> [i \in 1..Len(ls) |->
                     [x |-> 0,
                      y |-> rect.height
                            - (LineBottom(ls, i, gap) - LineHeight(ls[i].bounds)
                               + ls[i].bounds.ascent)]]]

\* Framesetter::create_frame(range, path): the lines broken to the width of
\* the path's rectangle, and their origins.
create_frame(attr, rect, ct) ==
    IF ct.defective
    THEN FrameOf(ReportedLines(attr, ct.locations), rect, attr.font.line_gap)
    ELSE FrameOf(ShapedLines(attr, Fin(rect.width)), rect, attr.font.line_gap)

\* Option<Frame>::None
NoFrame == [some |-> FALSE, lines |-> <<>>, origins |-> <<>>]

(* ---------------------- CoreGraphicsTextLayout ------------------------- *)
(* A layout is the record of the struct's fields. An operation that can    *)
(* panic returns its outcome beside the fields as the panic left them.     *)

\* line_count(): `self.line_y_positions.len()`
line_count(self) == Len(self.line_y_positions)

\* A slip: the byte count advances by the character's UTF-16 length.
RECURSIVE ScanToUnits(_, _, _, _)
ScanToUnits(cs, cur_16, cur_8, off_16) ==
    IF cs = <<>> THEN [found |-> FALSE, cs |-> cs, cur_16 |-> cur_16, cur_8 |-> cur_8]
    ELSE IF cur_16 + len_utf16(Head(cs)) = off_16
    THEN [found |-> TRUE, cs |-> Tail(cs), cur_16 |-> cur_16 + len_utf16(Head(cs)),
          cur_8 |-> cur_8 + len_utf16(Head(cs))]
    ELSE ScanToUnits(Tail(cs), cur_16 + len_utf16(Head(cs)), cur_8 + len_utf16(Head(cs)),
                     off_16)

\* The scan of rebuild_line_offsets for one target: characters are consumed
\* from cs until the running UTF-16 count equals off_16.
RECURSIVE ScanTo(_, _, _, _)
ScanTo(cs, cur_16, cur_8, off_16) ==
    IF cs = <<>> THEN [found |-> FALSE, cs |-> cs, cur_16 |-> cur_16, cur_8 |-> cur_8]
    ELSE LET n16 == cur_16 + len_utf16(Head(cs))
             n8  == cur_8 + len_utf8(Head(cs))
         IN  IF n16 = off_16
             THEN [found |-> TRUE, cs |-> Tail(cs), cur_16 |-> n16, cur_8 |-> n8]
             ELSE ScanTo(Tail(cs), n16, n8, off_16)

\* A slip: no special case for a target of 0, and a scan that stops as soon
\* as the count reaches the target.
RECURSIVE ScanToGe(_, _, _, _)
ScanToGe(cs, cur_16, cur_8, off_16) ==
    IF cs = <<>> THEN [found |-> FALSE, cs |-> cs, cur_16 |-> cur_16, cur_8 |-> cur_8]
    ELSE IF cur_16 + len_utf16(Head(cs)) >= off_16
    THEN [found |-> TRUE, cs |-> Tail(cs), cur_16 |-> cur_16 + len_utf16(Head(cs)),
          cur_8 |-> cur_8 + len_utf8(Head(cs))]
    ELSE ScanToGe(Tail(cs), cur_16 + len_utf16(Head(cs)), cur_8 + len_utf8(Head(cs)),
                  off_16)

RECURSIVE MapOffsetsNoZero(_, _, _, _, _)
MapNoZeroRest(targets, r, acc) ==
    IF r.found
    THEN MapOffsetsNoZero(Tail(targets), r.cs, r.cur_16, r.cur_8, Append(acc, r.cur_8))
    ELSE [panic |-> TRUE, line_offsets |-> acc]

MapOffsetsNoZero(targets, cs, cur_16, cur_8, acc) ==
    IF targets = <<>> THEN [panic |-> FALSE, line_offsets |-> acc]
    ELSE MapNoZeroRest(targets, ScanToGe(cs, cur_16, cur_8, Head(targets)), acc)

\* The `.map(|off_16| ...)` of rebuild_line_offsets over the targets, sharing
\* one character iterator and the two running counts. MapRest goes on after
\* the scan r for the first target.
RECURSIVE MapOffsets(_, _, _, _, _)
\* A slip: a target the scan does not find ends the mapping without a panic.
MapRestTruncates(targets, r, acc) ==
    IF r.found
    THEN MapOffsets(Tail(targets), r.cs, r.cur_16, r.cur_8, Append(acc, r.cur_8))
    ELSE [panic |-> FALSE, line_offsets |-> acc]

MapRest(targets, r, acc) ==
    IF r.found
    THEN MapOffsets(Tail(targets), r.cs, r.cur_16, r.cur_8, Append(acc, r.cur_8))
    ELSE [panic |-> TRUE, line_offsets |-> acc]

MapOffsets(targets, cs, cur_16, cur_8, acc) ==
    IF targets = <<>> THEN [panic |-> FALSE, line_offsets |-> acc]
    ELSE IF Head(targets) = 0
    THEN MapOffsets(Tail(targets), cs, cur_16, cur_8, Append(acc, 0))
    ELSE MapRest(targets, ScanTo(cs, cur_16, cur_8, Head(targets)), acc)

\* The assignment `self.line_offsets = ...collect()`, which a panic of the
\* map never reaches.
StoreOffsets(self, r) ==
    IF r.panic THEN [panic |-> TRUE, self |-> self]
    ELSE [panic |-> FALSE, self |-> [self EXCEPT !.line_offsets = r.line_offsets]]

\* rebuild_line_offsets(): the UTF-8 offset of each line of the frame.
rebuild_line_offsets(self) ==
    IF ~self.frame.some THEN [panic |-> TRUE, self |-> self]
    ELSE StoreOffsets(self,
             MapOffsets([i \in 1..Len(self.frame.lines) |-> self.frame.lines[i].location],
                        chars(self.string), 0, 0, <<>>))

\* The outcome of update_width after its call of rebuild_line_offsets.
Relaid(r) ==
    [self |-> r.self, passes |-> 1, result |-> IF r.panic THEN "panic" ELSE "Ok"]

\* A slip: the new line positions are appended to the old ones.
StoreFrameAppend(self, width, frame_size, frame) ==
    Relaid(rebuild_line_offsets(
        [self EXCEPT
            !.width_constraint = width,
            !.line_y_positions =
                self.line_y_positions
                \o [i \in 1..Len(frame.lines) |-> frame_size.height - frame.origins[i].y],
            !.frame = frame,
            !.frame_size = [width |-> frame_size.width, height |-> frame_size.height]]))

\* The struct after the assignments of update_width, in the order of the
\* source, from `self.width_constraint = width` to `self.frame_size = ..`.
FrameStored(self, width, frame_size, frame) ==
    [self EXCEPT
        !.width_constraint = width,
        !.line_y_positions =
            [i \in 1..Len(SubSeq(frame.origins, 1, Len(frame.lines))) |->
                frame_size.height - frame.origins[i].y],
        !.frame = frame,
        !.frame_size = [width |-> frame_size.width, height |-> frame_size.height]]

\* The assignments of update_width and its call of rebuild_line_offsets.
StoreFrame(self, width, frame_size, frame) ==
    Relaid(rebuild_line_offsets(FrameStored(self, width, frame_size, frame)))

\* The layout pass of update_width once the frame size is suggested.
LayOut(self, width, frame_size, ct) ==
    StoreFrame(self, width, frame_size,
               create_frame(self.attr_string,
                            [x |-> 0, y |-> 0, width |-> frame_size.width,
                             height |-> frame_size.height],
                            ct))

\* update_width(new_width), new_width already unwrapped to an f64.
UpdateTo(self, width, ct) ==
    IF FloatNe(width, self.width_constraint)
    THEN LayOut(self, width,
                suggest_frame_size(self.attr_string,
                                   [width |-> width, height |-> INFINITY]),
                ct)
    ELSE [self |-> self, passes |-> 0, result |-> "Ok"]

\* update_width(new_width). ct is what the adapter reports to this call.
\* passes counts the layout passes through the shaper.
update_width(self, new_width, ct) == UpdateTo(self, unwrap_or_infinity(new_width), ct)

\* A slip: the width before the first layout is INFINITY, not NaN.
new_sentinel_infinity(font, text, width_constraint, ct) ==
    update_width([string           |-> text,
                  attr_string      |-> AttributedString_new(text, font),
                  frame            |-> NoFrame,
                  frame_size       |-> [width |-> 0, height |-> 0],
                  line_y_positions |-> <<>>,
                  width_constraint |-> INFINITY,
                  line_offsets     |-> <<>>],
                 width_constraint, ct)

\* CoreGraphicsTextLayout::new(font, text, width_constraint)
new(font, text, width_constraint, ct) ==
    update_width([string           |-> text,
                  attr_string      |-> AttributedString_new(text, font),
                  frame            |-> NoFrame,
                  frame_size       |-> [width |-> 0, height |-> 0],
                  line_y_positions |-> <<>>,
                  width_constraint |-> NaN,
                  line_offsets     |-> <<>>],
                 width_constraint, ct)

\* CoreGraphicsText::new_text_layout(font, text, width) and the builder's build().
new_text_layout(font, text, width, ct) == new(font, text, unwrap_or_infinity(width), ct)

(* ------------------------------ queries -------------------------------- *)

None == [kind |-> "None"]

Panic == [kind |-> "panic"]

\* The process aborts: the non-unwinding panic of an unsafe-precondition
\* check in a build with debug assertions.
Abort == [kind |-> "abort"]

\* The process is killed: a read of memory that is not mapped.
Segfault == [kind |-> "segfault"]

\* A build: whether overflow checks are compiled in, and whether debug
\* assertions are; the compiler sets the two independently.
Builds == {[overflow_checks |-> oc, debug_assertions |-> da] : oc \in BOOLEAN, da \in BOOLEAN}

Bytes == 0..255

\* The memory around the string's buffer as a read outside the buffer finds
\* it: not mapped (fault), or holding the bytes `after` behind the buffer
\* and, directly in front of it, a run of `ws_before` whitespace bytes that
\* a byte of another kind precedes. Unread is the memory of a run that reads
\* none of it.
Unread == [fault |-> FALSE, ws_before |-> 0, after |-> <<>>]

\* What the memory may be where the build slices the range r off the string:
\* nothing is read outside the buffer by a range within the string, by no
\* range at all, and where debug assertions stop the slice; otherwise any
\* bytes may lie behind the buffer as far as the range reaches, and, for a
\* range with start > end, whitespace of any length in front of it.
Memories(string, r, build) ==
    IF r.kind # "Some" THEN {Unread}
    ELSE IF (r.start <= r.end /\ r.end <= Len(string)) \/ build.debug_assertions
    THEN {Unread}
    ELSE {[fault |-> TRUE, ws_before |-> 0, after |-> <<>>]}
         \cup {[fault |-> FALSE, ws_before |-> b, after |-> a] :
                  b \in (IF r.start > r.end THEN 0..MaxWsBefore ELSE {0}),
                  a \in [1..(IF r.end > Len(string) THEN r.end - Len(string) ELSE 0)
                            -> Bytes]}

\* The byte at offset i - 1 from the start of the string's buffer, i >= 1.
MemoryByte(string, i, memory) ==
    IF i <= Len(string) THEN string[i] ELSE memory.after[i - Len(string)]

\* Whether byte offset i of the string starts a character (or ends the string).
is_char_boundary(string, i) ==
    i = 0 \/ i = Len(string)
    \/ (i > 0 /\ i < Len(string) /\ (string[i + 1] < 128 \/ string[i + 1] >= 192))

\* A slip: the last line is taken to be line `line_count()`.
line_range_last_at_count(self, line, overflow_checks) ==
    IF line <= line_count(self)
    THEN IF line >= Len(self.line_offsets) THEN Panic
         ELSE IF line = line_count(self)
         THEN [kind |-> "Some", start |-> self.line_offsets[line + 1],
               end |-> Len(self.string)]
         ELSE IF line + 1 >= Len(self.line_offsets) THEN Panic
         ELSE [kind |-> "Some", start |-> self.line_offsets[line + 1],
               end |-> self.line_offsets[line + 2]]
    ELSE None

\* line_range(line). Indices are 0-based as in the source. `line_count() - 1`
\* on an empty layout panics with overflow checks and wraps to usize::MAX
\* without them, which no line index of the model equals.
line_range(self, line, overflow_checks) ==
    IF line <= line_count(self)
    THEN IF line >= Len(self.line_offsets) THEN Panic
         ELSE IF line_count(self) = 0 /\ overflow_checks THEN Panic
         ELSE LET start == self.line_offsets[line + 1]
              IN  IF line_count(self) > 0 /\ line = line_count(self) - 1
                  THEN [kind |-> "Some", start |-> start, end |-> Len(self.string)]
                  ELSE IF line + 1 >= Len(self.line_offsets) THEN Panic
                  ELSE [kind |-> "Some", start |-> start,
                        end |-> self.line_offsets[line + 2]]
    ELSE None

\* `self.string.get_unchecked(start..end)` of the range r. A range outside
\* the string or off a character boundary is undefined behaviour, and the
\* outcome is the build's and the memory's. Within the string: the bytes of
\* the range, be they no valid UTF-8. With start > end or end > len: an abort
\* where debug assertions are compiled in; without them a fault where the
\* memory is not mapped, and otherwise, with start <= end, the end - start
\* bytes of memory from start on, and with start > end a slice of the
\* wrapped length 2^64 - short that ends at offset end of the buffer; text is
\* then the slice's last bytes, those from the start of the buffer on.
get_unchecked(string, r, build, memory) ==
    IF r.start <= r.end /\ r.end <= Len(string)
    THEN [kind |-> "Some", text |-> SubSeq(string, r.start + 1, r.end)]
    ELSE IF build.debug_assertions THEN Abort
    ELSE IF memory.fault THEN Segfault
    ELSE IF r.start <= r.end
    THEN [kind |-> "Some",
          text |-> [i \in 1..(r.end - r.start) |-> MemoryByte(string, r.start + i, memory)]]
    ELSE [kind |-> "Some", wrapped |-> TRUE, short |-> r.start - r.end,
          text |-> [i \in 1..r.end |-> MemoryByte(string, i, memory)]]

\* `.map(|(start, end)| ...)` on an Option, a panic passing through.
MapRange(string, r, build, memory) ==
    IF r.kind # "Some" THEN r ELSE get_unchecked(string, r, build, memory)

\* line_text(line_number)
line_text(self, line_number, build, memory) ==
    MapRange(self.string, line_range(self, line_number, build.overflow_checks), build,
             memory)

\* A slip: only spaces and newlines are counted.
RECURSIVE trailing_spaces_and_newlines(_)
trailing_spaces_and_newlines(text) ==
    IF text = <<>> THEN 0
    ELSE IF text[Len(text)] \in {32, 10}
    THEN 1 + trailing_spaces_and_newlines(SubSeq(text, 1, Len(text) - 1))
    ELSE 0

\* The `.rev().take_while(..).count()` of line_metric: the trailing bytes that
\* are b' ', b'\t', b'\n' or b'\r'.
RECURSIVE trailing_whitespace(_)
trailing_whitespace(text) ==
    IF text = <<>> THEN 0
    ELSE IF text[Len(text)] \in Whitespace
    THEN 1 + trailing_whitespace(SubSeq(text, 1, Len(text) - 1))
    ELSE 0

\* The count of the scan from the end of the text: the trailing whitespace
\* of its bytes, and for a slice of wrapped length, whose bytes from the
\* start of the buffer on are all whitespace, the scan goes on through the
\* whitespace in front of the buffer.
Scanned(text, memory) ==
    IF "wrapped" \in DOMAIN text /\ trailing_whitespace(text.text) = Len(text.text)
    THEN Len(text.text) + memory.ws_before
    ELSE trailing_whitespace(text.text)

\* The LineMetric of line_metric, once the line, its range and its text are
\* at hand (`?` returns early on None; a panic passes through).
MetricOf(self, line_number, typo_bounds, range, text, memory) ==
    IF range.kind # "Some" THEN range
    ELSE IF text.kind # "Some" THEN text
    ELSE IF line_number >= Len(self.line_y_positions) THEN Panic
    ELSE [kind |-> "Some",
          start_offset |-> range.start,
          end_offset |-> range.end,
          trailing_whitespace |-> Scanned(text, memory),
          baseline |-> typo_bounds.ascent,
          height |-> typo_bounds.ascent + typo_bounds.descent + typo_bounds.leading,
          cumulative_height |->
              ceil(self.line_y_positions[line_number + 1]
                   + typo_bounds.descent + typo_bounds.leading)]

\* line_metric(line_number). The clamp of line_number to isize::MAX leaves
\* every index of the model as it is.
line_metric(self, line_number, build, memory) ==
    IF ~self.frame.some THEN Panic
    ELSE IF line_number >= Len(self.frame.lines) THEN None
    ELSE MetricOf(self, line_number, self.frame.lines[line_number + 1].bounds,
                  line_range(self, line_number, build.overflow_checks),
                  line_text(self, line_number, build, memory), memory)

\* width(): `self.frame_size.width`
width(self) == [kind |-> "Some", width |-> self.frame_size.width]

\* hit_test_point(point): `unimplemented!()`
hit_test_point(self, point) == Panic

\* hit_test_text_position(text_position): `unimplemented!()`
hit_test_text_position(self, text_position) == Panic

\* draw(ctx): `self.frame.as_ref().expect("always inited in ::new")`
draw(self) == IF self.frame.some THEN [kind |-> "Some"] ELSE Panic

(* --------------------------- the state machine ------------------------- *)

VARIABLES
    string,             \* the source text, UTF-8
    attr_string,        \* the attributed string the framesetter was made of
    frame,              \* Option<Frame>
    line_y_positions,   \* per line, the distance from the frame's top to the baseline
    line_offsets,       \* per line, its UTF-8 start offset
    frame_size,
    width_constraint,
    last,               \* history: the last operation, its argument and its outcome
    prev                \* history: the layout as it was before that operation

fields == <<string, attr_string, frame, line_y_positions, line_offsets, frame_size,
            width_constraint>>

vars == <<string, attr_string, frame, line_y_positions, line_offsets, frame_size,
          width_constraint, last, prev>>

\* The struct, as the operations take it.
Self ==
    [string           |-> string,
     attr_string      |-> attr_string,
     frame            |-> frame,
     frame_size       |-> frame_size,
     line_y_positions |-> line_y_positions,
     width_constraint |-> width_constraint,
     line_offsets     |-> line_offsets]

\* The struct becomes s.
Becomes(s) ==
    /\ string' = s.string
    /\ attr_string' = s.attr_string
    /\ frame' = s.frame
    /\ frame_size' = s.frame_size
    /\ line_y_positions' = s.line_y_positions
    /\ width_constraint' = s.width_constraint
    /\ line_offsets' = s.line_offsets

\* The struct as `new` fills it in before its update_width call.
Blank(font, text) ==
    [string           |-> text,
     attr_string      |-> AttributedString_new(text, font),
     frame            |-> NoFrame,
     frame_size       |-> [width |-> 0, height |-> 0],
     line_y_positions |-> <<>>,
     width_constraint |-> NaN,
     line_offsets     |-> <<>>]

\* Result<(), Error>::Ok(())
Ok == [kind |-> "Ok"]

\* The line indices and points the queries are made with.
LineIndices == 0..(MaxLen + 1)

Points == {[x |-> 0, y |-> 0], [x |-> -4, y |-> 4 * FontSize * (MaxLen + 1)]}

\* The process runs: no call has aborted it or run into a fault.
Alive == last.res.kind \notin {"abort", "segfault"}

\* A read-only operation: the layout stays, the history records the outcome.
Reads(op, arg, res) ==
    /\ Alive
    /\ last' = [op |-> op, arg |-> arg, res |-> res, passes |-> 0]
    /\ prev' = Self
    /\ UNCHANGED fields

\* The layout is r.self, returned by the build with argument arg.
Returned(r, font, text, arg) ==
    /\ r.result = "Ok"
    /\ string = r.self.string
    /\ attr_string = r.self.attr_string
    /\ frame = r.self.frame
    /\ frame_size = r.self.frame_size
    /\ line_y_positions = r.self.line_y_positions
    /\ width_constraint = r.self.width_constraint
    /\ line_offsets = r.self.line_offsets
    /\ last = [op |-> "new", arg |-> arg, res |-> Ok, passes |-> r.passes]
    /\ prev = Blank(font, text)

\* A layout built by new_text_layout(font, text, width).build(): a build whose
\* update_width panics returns no layout.
Built(texts, adapters) ==
    \E font \in Fonts, text \in texts, arg \in WidthArgs, ct \in adapters :
        Returned(new_text_layout(font, text, arg, ct), font, text, arg)

Init == Built(Texts, {Sound})

\* The layout and the history after an update_width(arg) with outcome r;
\* the history keeps `before` as the layout before the call, and in `again`
\* whether the call follows an update_width and asks for the width that was
\* cached before that one.
Updated(r, arg, before) ==
    /\ Alive
    /\ Becomes(r.self)
    /\ last' = [op |-> "update_width", arg |-> arg,
                res |-> IF r.result = "Ok" THEN Ok ELSE Panic, passes |-> r.passes,
                again |-> /\ last.op = "update_width"
                          /\ FloatSame(unwrap_or_infinity(arg), prev.width_constraint)]
    /\ prev' = before

\* update_width(arg) on the layout, the adapter reporting ct.
Updates(arg, ct, before) == Updated(update_width(Self, arg, ct), arg, before)

UpdateWidth(arg) == Updates(arg, Sound, Self)

LineText(i) ==
    \E oc \in Builds :
        \E m \in Memories(string, line_range(Self, i, oc.overflow_checks), oc) :
            Reads("line_text", i, line_text(Self, i, oc, m))

LineMetric(i) ==
    \E oc \in Builds :
        \E m \in Memories(string, line_range(Self, i, oc.overflow_checks), oc) :
            Reads("line_metric", i, line_metric(Self, i, oc, m))

LineCount == Reads("line_count", 0, [kind |-> "Some", count |-> line_count(Self)])

Width == Reads("width", 0, width(Self))

HitTestPoint(p) == Reads("hit_test_point", p, hit_test_point(Self, p))

HitTestTextPosition(off) ==
    Reads("hit_test_text_position", off, hit_test_text_position(Self, off))

Draw == Reads("draw", 0, draw(Self))

Next ==
    \/ \E arg \in WidthArgs : UpdateWidth(arg)
    \/ \E i \in LineIndices : LineText(i)
    \/ \E i \in LineIndices : LineMetric(i)
    \/ LineCount
    \/ Width
    \/ \E p \in Points : HitTestPoint(p)
    \/ \E off \in 0..Len(string) : HitTestTextPosition(off)
    \/ Draw

Spec == Init /\ [][Next]_vars

(* ----------------- runs with a defective shaper adapter ---------------- *)
(* The adapter may report any line start locations to a layout pass: none, *)
(* repeated ones, one inside a surrogate pair, one past the end of text.   *)

FaultyTexts == {StringOf(cs) : cs \in SeqsUpTo(Alphabet, MaxFaultyLen)}

Adapters ==
    {Sound} \cup {Defective(locs) :
                     locs \in SeqsUpTo(0..(2 * MaxFaultyLen + 1), MaxFaultyLines)}

FaultyWidthArgs == {NoWidth, Fin(4)}

InitDefective == Built(FaultyTexts, Adapters) /\ last.arg \in FaultyWidthArgs

\* update_width(arg) while the adapter reports ct. A panic unwinds out of
\* update_width and leaves the layout to its owner as it then is. These runs
\* keep no copy of the layout before the call: prev is the blank struct.
UpdateWidthReported(arg, ct) == Updates(arg, ct, Blank(attr_string.font, string))

NextDefective ==
    \/ \E arg \in FaultyWidthArgs, ct \in Adapters : UpdateWidthReported(arg, ct)
    \/ \E i \in 0..(MaxFaultyLines + 1) : LineText(i)
    \/ \E i \in 0..(MaxFaultyLines + 1) : LineMetric(i)
    \/ LineCount

SpecDefective == InitDefective /\ [][NextDefective]_vars

(* ------------------- the offset mapping by itself ---------------------- *)
(* rebuild_line_offsets as a function of the text and of the line starts   *)
(* the frame reports: the layout is taken where update_width is about to   *)
(* call it during a build, the frame holding lines at the starts `targets`. *)

ScanTexts == {StringOf(cs) : cs \in SeqsUpTo(Alphabet, MaxScanLen)}

TargetLists == SeqsUpTo(0..(2 * MaxScanLen + 1), MaxTargets)

\* The struct is s.
Is(s) ==
    /\ string = s.string
    /\ attr_string = s.attr_string
    /\ frame = s.frame
    /\ frame_size = s.frame_size
    /\ line_y_positions = s.line_y_positions
    /\ width_constraint = s.width_constraint
    /\ line_offsets = s.line_offsets

\* The struct of a build at text.rs:104, the frame of size frame_size
\* created and stored.
AtRebuild(self, w, size, ct) ==
    FrameStored(self, w, size,
                create_frame(self.attr_string,
                             [x |-> 0, y |-> 0, width |-> size.width,
                              height |-> size.height],
                             ct))

InitOffsets ==
    \E font \in Fonts, text \in ScanTexts, targets \in TargetLists :
        /\ Is(AtRebuild(Blank(font, text), INFINITY,
                        suggest_frame_size(AttributedString_new(text, font),
                                           [width |-> INFINITY, height |-> INFINITY]),
                        Defective(targets)))
        /\ last = [op |-> "create_frame", arg |-> targets, res |-> Ok, passes |-> 1]
        /\ prev = Blank(font, text)

\* The layout and the history after rebuild_line_offsets() with outcome r.
Rebuilt(r) ==
    /\ Becomes(r.self)
    /\ last' = [op |-> "rebuild_line_offsets", arg |-> last.arg,
                res |-> IF r.panic THEN Panic ELSE Ok, passes |-> 0]
    /\ prev' = Self

RebuildLineOffsets ==
    /\ last.op = "create_frame"
    /\ Rebuilt(rebuild_line_offsets(Self))

NextOffsets == RebuildLineOffsets

SpecOffsets == InitOffsets /\ [][NextOffsets]_vars

(* ------------------------------ properties ----------------------------- *)

\* The UTF-16 and UTF-8 lengths of the characters cs.
Utf16Len(cs) == SumSeq([i \in 1..Len(cs) |-> len_utf16(cs[i])])

Utf8Len(cs) == SumSeq([i \in 1..Len(cs) |-> len_utf8(cs[i])])

\* t is the UTF-16 length of a prefix of the text's characters.
OnBoundary(text, t) ==
    \E k \in 0..Len(chars(text)) : Utf16Len(SubSeq(chars(text), 1, k)) = t

\* The UTF-8 length of the prefix of the text whose UTF-16 length is t.
PrefixBytes(text, t) ==
    Utf8Len(SubSeq(chars(text), 1,
                   CHOOSE k \in 0..Len(chars(text)) :
                       Utf16Len(SubSeq(chars(text), 1, k)) = t))

NonDecreasing(ts) == \A i \in 1..(Len(ts) - 1) : ts[i] <= ts[i + 1]

\* The length of the longest suffix of bytes made of whitespace bytes only.
LongestWhitespaceSuffix(bytes) ==
    CHOOSE k \in 0..Len(bytes) :
        /\ \A j \in (Len(bytes) - k + 1)..Len(bytes) : bytes[j] \in {32, 9, 13, 10}
        /\ k = Len(bytes) \/ bytes[Len(bytes) - k] \notin {32, 9, 13, 10}

\* The cached state a relayout replaces.
Cached(s) == <<s.line_offsets, s.line_y_positions, s.frame_size, s.width_constraint>>

\* A width update_width is to reject: NaN or negative.
Rejected(w) == w.k = "nan" \/ (w.k = "fin" /\ w.v < 0)

\* C1: in every state after build and any update_width calls, every line i <
\* line_count() has a text, it is source_text[line_offsets[i] .. line_offsets[i+1]]
\* (to the end of the text for the last line), and the line texts in order,
\* concatenated, are the source text.
PartitionProperty ==
    \A oc \in Builds :
        /\ \A i \in 0..(line_count(Self) - 1) :
              /\ line_text(Self, i, oc, Unread).kind = "Some"
              /\ line_text(Self, i, oc, Unread).text =
                     SubSeq(string, line_offsets[i + 1] + 1,
                            IF i = line_count(Self) - 1 THEN Len(string)
                            ELSE line_offsets[i + 2])
        /\ Flatten([i \in 1..line_count(Self) |-> line_text(Self, i - 1, oc, Unread).text]) = string

\* C1's case: the middle line of three, a four-byte character, read at wrap width 1.
PartitionWitness ==
    /\ last.op = "line_text" /\ last.arg = 1
    /\ line_count(Self) = 3
    /\ width_constraint = Fin(4)
    /\ last.res.kind = "Some"
    /\ last.res.text = EncodeUtf8Char(128512)

\* C2: line_text(i) and line_metric(i) with i >= line_count() return None.
OutOfRangeIsAbsent ==
    (last.op \in {"line_text", "line_metric"} /\ last.arg >= line_count(Self))
        => last.res = None

\* C3: an update_width(w) made while the cached width is w, bit for bit, makes
\* no layout pass and leaves the layout as it was.
SameWidthSkipsShaping ==
    (last.op = "update_width"
     /\ FloatSame(unwrap_or_infinity(last.arg), prev.width_constraint))
        => (last.passes = 0 /\ Self = prev)

\* C4: whatever the outcome of the calls so far, line_offsets, line_y_positions
\* and the frame's lines have one length, and the offsets and positions are
\* those of the cached frame and frame size.
FromOnePass ==
    /\ Len(line_offsets) = Len(line_y_positions)
    /\ Len(line_y_positions) = Len(frame.lines)
    /\ ~rebuild_line_offsets(Self).panic
    /\ rebuild_line_offsets(Self).self.line_offsets = line_offsets
    /\ line_y_positions =
           [i \in 1..Len(frame.lines) |-> frame_size.height - frame.origins[i].y]

\* C5: line_offsets[0] is 0 and line_metric(0).start_offset is 0.
FirstOffsetIsZero ==
    /\ line_offsets # <<>>
    /\ line_offsets[1] = 0
    /\ \A oc \in Builds :
          /\ line_metric(Self, 0, oc, Unread).kind = "Some"
          /\ line_metric(Self, 0, oc, Unread).start_offset = 0

\* C5's case: line_metric(0) read on a layout of several lines whose text
\* starts with a four-byte character.
FirstOffsetWitness ==
    /\ last.op = "line_metric" /\ last.arg = 0
    /\ last.res.kind = "Some" /\ last.res.start_offset = 0
    /\ line_count(Self) >= 2
    /\ string # <<>> /\ string[1] = 240

\* C6: update_width with a NaN or negative width returns an error, makes no
\* layout pass and leaves the layout as it was; with any other width it
\* returns Ok.
InvalidWidthRejected ==
    last.op = "update_width" =>
        IF Rejected(unwrap_or_infinity(last.arg))
        THEN last.res.kind = "Err" /\ last.passes = 0 /\ Self = prev
        ELSE last.res = Ok

\* C7: hit_test_point and hit_test_text_position return a result for every
\* point and every offset in [0, text length].
HitTestsAreTotal ==
    last.op \in {"hit_test_point", "hit_test_text_position"} => last.res.kind = "Some"

\* C8: a build makes exactly one layout pass, whatever its width argument,
\* and in every state from then on the frame is present: line_metric and
\* draw do not panic.
BuildLaysOutOnce ==
    /\ last.op = "new" => last.passes = 1
    /\ frame.some
    /\ draw(Self).kind # "panic"
    /\ \A i \in LineIndices, oc \in Builds :
          line_metric(Self, i, oc, Unread).kind \in {"Some", "None"}

\* C8's case: a layout as built with no width argument.
BuiltWithoutWidth ==
    /\ last.op = "new" /\ last.arg = NoWidth /\ last.passes = 1
    /\ frame.some /\ width_constraint = INFINITY

\* C9: an update_width(w1) that follows an update_width(w2) made in the state
\* an earlier layout at w1 had left yields that state's line_offsets,
\* line_y_positions, frame_size and cached width again.
RelayoutIsPure ==
    [][\A arg \in WidthArgs :
         (/\ last.op = "update_width"
          /\ FloatSame(unwrap_or_infinity(arg), prev.width_constraint)
          /\ UpdateWidth(arg))
             => Cached(Self)' = Cached(prev)]_vars

\* C9's case: the third call relaid the text at the width cached before the
\* second, which had changed the line breaks.
RelaidAtFirstWidth ==
    /\ last.op = "update_width" /\ last.again /\ last.passes = 1
    /\ prev.width_constraint # width_constraint
    /\ prev.line_offsets # line_offsets
    /\ line_count(Self) >= 2

\* C11: for every line i < line_count(), the byte range line_range(i) yields,
\* which line_text(i) slices unchecked, has start <= end <= the text's length
\* and both ends on UTF-8 character boundaries of the source text.
RangesOnCharBoundaries ==
    \A oc \in Builds, i \in 0..(line_count(Self) - 1) :
        /\ line_range(Self, i, oc.overflow_checks).kind = "Some"
        /\ line_range(Self, i, oc.overflow_checks).start
               <= line_range(Self, i, oc.overflow_checks).end
        /\ line_range(Self, i, oc.overflow_checks).end <= Len(string)
        /\ is_char_boundary(string, line_range(Self, i, oc.overflow_checks).start)
        /\ is_char_boundary(string, line_range(Self, i, oc.overflow_checks).end)
        /\ line_text(Self, i, oc, Unread).kind = "Some"

\* C11's case: the text is a four-byte, two-unit character, a two-byte
\* character and an 'a', one to a line; the middle line is read, bytes 4 to 6.
RangeAfterWideChar ==
    /\ last.op = "line_text" /\ last.arg = 1
    /\ string = EncodeUtf8Char(128512) \o EncodeUtf8Char(233) \o <<97>>
    /\ line_offsets = <<0, 4, 6>>
    /\ last.res.kind = "Some"
    /\ last.res.text = EncodeUtf8Char(233)

\* C12: for every text and every non-decreasing list of line starts that are
\* each the UTF-16 length of a prefix of the text, rebuild_line_offsets
\* returns and stores, for each line start in order, the UTF-8 length of
\* that prefix.
NonDecreasingTargetsMapped ==
    (/\ last.op = "rebuild_line_offsets"
     /\ NonDecreasing(last.arg)
     /\ \A i \in 1..Len(last.arg) : OnBoundary(string, last.arg[i]))
        => /\ last.res = Ok
           /\ line_offsets = [i \in 1..Len(last.arg) |-> PrefixBytes(string, last.arg[i])]

\* C13: if some line start is the UTF-16 length of no prefix of the text,
\* rebuild_line_offsets panics and stores nothing; whenever it returns, it
\* has stored one offset per line start, each the UTF-8 length of the prefix
\* the line start names.
BadTargetAborts ==
    last.op = "rebuild_line_offsets" =>
        /\ (\E i \in 1..Len(last.arg) : ~OnBoundary(string, last.arg[i]))
              => (last.res = Panic /\ line_offsets = prev.line_offsets)
        /\ last.res = Ok =>
              /\ Len(line_offsets) = Len(last.arg)
              /\ \A i \in 1..Len(last.arg) :
                    /\ OnBoundary(string, last.arg[i])
                    /\ line_offsets[i] = PrefixBytes(string, last.arg[i])

\* C13's case: the second line is reported to start inside the surrogate
\* pair of a four-byte character; the rebuild has panicked.
SplitPairAborted ==
    /\ last.op = "rebuild_line_offsets"
    /\ string = EncodeUtf8Char(128512)
    /\ last.arg = <<0, 1>>
    /\ last.res = Panic
    /\ line_offsets = <<>>

\* C14: for every line i < line_count(), line_metric(i).trailing_whitespace is
\* the length of the longest suffix of line_text(i) made of space, tab, CR and
\* LF bytes, and start_offset and end_offset are the bounds of line_text(i)
\* in the source text: line_offsets[i], and line_offsets[i+1] or the text's
\* length for the last line.
MetricMatchesLineText ==
    \A oc \in Builds, i \in 0..(line_count(Self) - 1) :
        /\ line_metric(Self, i, oc, Unread).kind = "Some"
        /\ line_text(Self, i, oc, Unread).kind = "Some"
        /\ line_metric(Self, i, oc, Unread).trailing_whitespace
               = LongestWhitespaceSuffix(line_text(Self, i, oc, Unread).text)
        /\ line_metric(Self, i, oc, Unread).start_offset = line_offsets[i + 1]
        /\ line_metric(Self, i, oc, Unread).end_offset =
               (IF i = line_count(Self) - 1 THEN Len(string) ELSE line_offsets[i + 2])
        /\ line_text(Self, i, oc, Unread).text =
               SubSeq(string, line_metric(Self, i, oc, Unread).start_offset + 1,
                      line_metric(Self, i, oc, Unread).end_offset)

\* C14's case: the metric of the one line of "a\t", which ends in a tab
\* after an 'a': one trailing whitespace byte, bytes 0 to 2.
TrailingTabCounted ==
    /\ last.op = "line_metric" /\ last.arg = 0
    /\ string = <<97, 9>>
    /\ line_count(Self) = 1
    /\ last.res.kind = "Some"
    /\ last.res.trailing_whitespace = 1
    /\ last.res.start_offset = 0 /\ last.res.end_offset = 2

====
